---- MODULE Spec2Model ----
(***************************************************************************)
(* Event normalization and hook dispatch of boopifier:                     *)
(*   src/src/event.rs           Event::from_json, get_str, get_nested_str  *)
(*   src/src/hooks/opencode.rs  map_opencode_event,                        *)
(*                              detect_opencode_event_type,                *)
(*                              FileEditedHook, SessionErrorHook           *)
(*   src/src/hooks/mod.rs       hook_from_event, hook_from_name            *)
(*                                                                         *)
(* A string is a sequence of symbols.  The symbol "." is the character     *)
(* '.'; every other symbol is a dot-free chunk of text that is treated as  *)
(* one character ("session" is a single symbol).  So "session.idle" is     *)
(* <<"session", ".", "idle">>, the empty string is <<>>, and contains and  *)
(* split are computed on the sequence.                                     *)
(***************************************************************************)
EXTENDS Integers, Sequences, FiniteSets, TLC

VARIABLES pc, json, event, hook_event_name, hook, outcomes, response, call

vars == <<pc, json, event, hook_event_name, hook, outcomes, response, call>>

(***************************************************************************)
(* Bounds of the model.                                                    *)
(***************************************************************************)
MaxOutcomes == 2
MaxStrLen == 2
MaxPathLen == 5

(***************************************************************************)
(* Option and Result.                                                      *)
(***************************************************************************)
None == [tag |-> "None"]
Some(x) == [tag |-> "Some", v |-> x]
Ok(x) == [tag |-> "Ok", v |-> x]
Err(kind, detail) == [tag |-> "Err", kind |-> kind, detail |-> detail]
NotYet == [tag |-> "NotYet"]

(***************************************************************************)
(* serde_json::Value.                                                      *)
(***************************************************************************)
Null == [k |-> "null"]
Bool(b) == [k |-> "bool", b |-> b]
Number(n) == [k |-> "number", n |-> n]
String(s) == [k |-> "string", s |-> s]
Array(a) == [k |-> "array", a |-> a]
Object(m) == [k |-> "object", m |-> m]
EmptyMap == <<>>

\* Value::as_str
as_str(v) == IF v.k = "string" THEN Some(v.s) ELSE None

\* Value::get with a &str index: only an object can be descended into.
Value_get(v, part) ==
    IF v.k = "object" /\ part \in DOMAIN v.m THEN Some(v.m[part]) ELSE None

(***************************************************************************)
(* Strings.                                                                *)
(***************************************************************************)
Dot == "."

\* str::contains(char)
contains(s, c) == \E i \in 1..Len(s) : s[i] = c

\* str::split(char): the pieces between the separators, empty pieces kept.
RECURSIVE split(_, _)
split(s, sep) ==
    IF ~contains(s, sep)
    THEN <<s>>
    ELSE LET i == CHOOSE i \in 1..Len(s) :
                      s[i] = sep /\ \A j \in 1..(i - 1) : s[j] # sep
         IN  <<SubSeq(s, 1, i - 1)>> \o split(SubSeq(s, i + 1, Len(s)), sep)

\* field names
hook_event_name_key == <<"hook_event_name">>
type_key == <<"type">>
event_key == <<"event">>
hook_key == <<"hook">>

\* OpenCode event names
tool_execute_before == <<"tool", ".", "execute", ".", "before">>
tool_execute_after == <<"tool", ".", "execute", ".", "after">>
session_idle == <<"session", ".", "idle">>
session_created == <<"session", ".", "created">>
session_deleted == <<"session", ".", "deleted">>
session_completed == <<"session", ".", "completed">>
session_compacted == <<"session", ".", "compacted">>
session_compacting == <<"session", ".", "compacting">>
file_edited == <<"file", ".", "edited">>
session_error == <<"session", ".", "error">>

\* internal hook names
Stop == <<"Stop">>
SubagentStop == <<"SubagentStop">>
Notification == <<"Notification">>
PreToolUse == <<"PreToolUse">>
PostToolUse == <<"PostToolUse">>
PermissionRequest == <<"PermissionRequest">>
UserPromptSubmit == <<"UserPromptSubmit">>
SessionStart == <<"SessionStart">>
SessionEnd == <<"SessionEnd">>
PreCompact == <<"PreCompact">>
FileEdited == <<"FileEdited">>
SessionError == <<"SessionError">>

(***************************************************************************)
(* hooks/opencode.rs                                                       *)
(***************************************************************************)
\* variant: session.completed taken for the end of the session
map_opencode_event_completed_ends(event_type) ==
    CASE event_type = tool_execute_before -> Some(PreToolUse)
      [] event_type = tool_execute_after -> Some(PostToolUse)
      [] event_type = session_idle -> Some(Stop)
      [] event_type = session_created -> Some(SessionStart)
      [] event_type \in {session_deleted, session_completed} -> Some(SessionEnd)
      [] event_type \in {session_compacted, session_compacting} -> Some(PreCompact)
      [] event_type = file_edited -> Some(FileEdited)
      [] event_type = session_error -> Some(SessionError)
      [] OTHER -> None

map_opencode_event(event_type) ==
    CASE event_type = tool_execute_before -> Some(PreToolUse)
      [] event_type = tool_execute_after -> Some(PostToolUse)
      [] event_type = session_idle -> Some(Stop)
      [] event_type = session_created -> Some(SessionStart)
      [] event_type = session_deleted -> Some(SessionEnd)
      [] event_type = session_completed -> Some(Stop)
      [] event_type \in {session_compacted, session_compacting} -> Some(PreCompact)
      [] event_type = file_edited -> Some(FileEdited)
      [] event_type = session_error -> Some(SessionError)
      [] OTHER -> None

\* variant: the fields scanned in the opposite order
DetectFields_reversed == <<<<"hook">>, <<"event">>, <<"type">>>>

\* the fields detect_opencode_event_type scans, in scan order
DetectFields == <<type_key, event_key, hook_key>>

\* variant: any dotted string is taken, mapped or not
detect_field_any_dotted(data, field) ==
    IF /\ field \in DOMAIN data
       /\ data[field].k = "string"
       /\ contains(data[field].s, Dot)
    THEN Some(data[field].s)
    ELSE None

\* one iteration of the for loop: Some(s) when this field returns from the loop
detect_field(data, field) ==
    IF /\ field \in DOMAIN data
       /\ data[field].k = "string"
       /\ contains(data[field].s, Dot)
       /\ map_opencode_event(data[field].s) # None
    THEN Some(data[field].s)
    ELSE None

RECURSIVE detect_from(_, _)
detect_from(data, i) ==
    IF i > Len(DetectFields)
    THEN None
    ELSE IF detect_field(data, DetectFields[i]) # None
         THEN detect_field(data, DetectFields[i])
         ELSE detect_from(data, i + 1)

detect_opencode_event_type(data) == detect_from(data, 1)

(***************************************************************************)
(* event.rs                                                                *)
(***************************************************************************)
\* input text that is not valid JSON
Malformed == [k |-> "malformed"]

\* variant: the inserted entry replaces the map
insert_alone(m, key, v) == [x \in {key} |-> v]

\* HashMap::insert
insert(m, key, v) == [x \in DOMAIN m \cup {key} |-> IF x = key THEN v ELSE m[x]]

\* struct Event { data: HashMap<String, Value> }
Event(data) == [data |-> data]

\* variant: a hook_event_name that is not a string counts as missing
from_json_non_string_is_missing(j) ==
    IF j.k # "object"
    THEN Err("ParseError", <<>>)
    ELSE LET data == j.m
             oc_type == detect_opencode_event_type(data)
             mapped == IF oc_type = None THEN None ELSE map_opencode_event(oc_type.v)
             missing == \/ hook_event_name_key \notin DOMAIN data
                        \/ data[hook_event_name_key].k # "string"
         IN  IF missing /\ oc_type # None /\ mapped # None
             THEN Ok(Event(insert(data, hook_event_name_key, String(mapped.v))))
             ELSE Ok(Event(data))

\* Event::from_json.  The text is given as the document it denotes; only a
\* document whose root is an object deserializes into the flattened map.
from_json(j) ==
    IF j.k # "object"
    THEN Err("ParseError", <<>>)
    ELSE LET data == j.m
             oc_type == detect_opencode_event_type(data)
             mapped == IF oc_type = None THEN None ELSE map_opencode_event(oc_type.v)
         IN  IF hook_event_name_key \notin DOMAIN data /\ oc_type # None /\ mapped # None
             THEN Ok(Event(insert(data, hook_event_name_key, String(mapped.v))))
             ELSE Ok(Event(data))

\* Event::get_str
get_str(ev, key) == IF key \in DOMAIN ev.data THEN as_str(ev.data[key]) ELSE None

\* Event::as_value
as_value(ev) == Object(ev.data)

\* the for loop of Event::get_nested_str, from part i on
RECURSIVE walk(_, _, _)
walk(current, parts, i) ==
    IF i > Len(parts)
    THEN as_str(current)
    ELSE IF Value_get(current, parts[i]) = None
         THEN None
         ELSE walk(Value_get(current, parts[i]).v, parts, i + 1)

\* variant: the path is looked up as one key, not split
get_nested_str_unsplit(ev, path) == walk(Object(ev.data), <<path>>, 1)

\* Event::get_nested_str
get_nested_str(ev, path) == walk(Object(ev.data), split(path, Dot), 1)

(***************************************************************************)
(* hooks/mod.rs and the hook types                                         *)
(***************************************************************************)
\* HandlerOutcome
Success == [tag |-> "Success"]
Error(msg) == [tag |-> "Error", msg |-> msg]
Interactive(decision, reason) ==
    [tag |-> "Interactive", decision |-> decision, reason |-> reason]
PermissionDecision == {"Allow", "Deny", "Ask"}

\* the hook types
UnitHook(variant) == [variant |-> variant]
StopHook_new(name) == [variant |-> "StopHook", hook_type |-> name]
FileEditedHook == UnitHook("FileEditedHook")
SessionErrorHook == UnitHook("SessionErrorHook")

\* tool_use::PreToolUseHook::from_event: parses the tool identity out of the
\* event and fails when that fails; tool_ok says whether the parse succeeds
PreToolUseHook_from_event(ev, tool_ok) ==
    IF tool_ok THEN Ok(UnitHook("PreToolUseHook")) ELSE Err("ConstructionError", <<>>)

\* variant: SubagentStop is not registered
hook_from_name_no_subagent(name, ev, tool_ok) ==
    CASE name = Stop -> Ok(StopHook_new(name))
      [] name = Notification -> Ok(UnitHook("NotificationHook"))
      [] name = PreToolUse -> PreToolUseHook_from_event(ev, tool_ok)
      [] name = PostToolUse -> Ok(UnitHook("PostToolUseHook"))
      [] name = PermissionRequest -> Ok(UnitHook("PermissionRequestHook"))
      [] name = UserPromptSubmit -> Ok(UnitHook("UserPromptSubmitHook"))
      [] name = SessionStart -> Ok(UnitHook("SessionStartHook"))
      [] name = SessionEnd -> Ok(UnitHook("SessionEndHook"))
      [] name = PreCompact -> Ok(UnitHook("PreCompactHook"))
      [] name = FileEdited -> Ok(FileEditedHook)
      [] name = SessionError -> Ok(SessionErrorHook)
      [] OTHER -> Err("UnknownHookType", name)

hook_from_name(name, ev, tool_ok) ==
    CASE name \in {Stop, SubagentStop} -> Ok(StopHook_new(name))
      [] name = Notification -> Ok(UnitHook("NotificationHook"))
      [] name = PreToolUse -> PreToolUseHook_from_event(ev, tool_ok)
      [] name = PostToolUse -> Ok(UnitHook("PostToolUseHook"))
      [] name = PermissionRequest -> Ok(UnitHook("PermissionRequestHook"))
      [] name = UserPromptSubmit -> Ok(UnitHook("UserPromptSubmitHook"))
      [] name = SessionStart -> Ok(UnitHook("SessionStartHook"))
      [] name = SessionEnd -> Ok(UnitHook("SessionEndHook"))
      [] name = PreCompact -> Ok(UnitHook("PreCompactHook"))
      [] name = FileEdited -> Ok(FileEditedHook)
      [] name = SessionError -> Ok(SessionErrorHook)
      [] OTHER -> Err("UnknownHookType", name)

\* variant: an event of no recognizable type is taken for a Stop
resolve_hook_event_name_default_stop(ev) ==
    IF get_str(ev, hook_event_name_key) # None
    THEN Ok(get_str(ev, hook_event_name_key).v)
    ELSE IF detect_opencode_event_type(ev.data) # None
         THEN LET oc_event == detect_opencode_event_type(ev.data).v
              IN  IF map_opencode_event(oc_event) # None
                  THEN Ok(map_opencode_event(oc_event).v)
                  ELSE Err("UnrecognizedOpenCodeEvent", oc_event)
         ELSE Ok(Stop)

\* the let of hook_from_event: the resolved name, or the error it bails with
resolve_hook_event_name(ev) ==
    IF get_str(ev, hook_event_name_key) # None
    THEN Ok(get_str(ev, hook_event_name_key).v)
    ELSE IF detect_opencode_event_type(ev.data) # None
         THEN LET oc_event == detect_opencode_event_type(ev.data).v
              IN  IF map_opencode_event(oc_event) # None
                  THEN Ok(map_opencode_event(oc_event).v)
                  ELSE Err("UnrecognizedOpenCodeEvent", oc_event)
         ELSE Err("NoHookEventName", <<>>)

hook_from_event(ev, tool_ok) ==
    IF resolve_hook_event_name(ev).tag = "Ok"
    THEN hook_from_name(resolve_hook_event_name(ev).v, ev, tool_ok)
    ELSE resolve_hook_event_name(ev)

\* Hook::hook_type of the hook types defined outside hooks/opencode.rs: the
\* name the hook was constructed for
other_hook_type(h) ==
    CASE h.variant = "StopHook" -> h.hook_type
      [] h.variant = "NotificationHook" -> Notification
      [] h.variant = "PreToolUseHook" -> PreToolUse
      [] h.variant = "PostToolUseHook" -> PostToolUse
      [] h.variant = "PermissionRequestHook" -> PermissionRequest
      [] h.variant = "UserPromptSubmitHook" -> UserPromptSubmit
      [] h.variant = "SessionStartHook" -> SessionStart
      [] h.variant = "SessionEndHook" -> SessionEnd
      [] h.variant = "PreCompactHook" -> PreCompact

\* Hook::generate_response of those hook types: a value of the variant's own
\* shape, folded from the outcomes
other_generate_response(h, outs) ==
    [k |-> "variant_response", variant |-> h.variant, outcomes |-> outs]

FileEditedHook_hook_type == FileEdited
SessionErrorHook_hook_type == SessionError
\* variant: a failed handler is reported in the response
FileEditedHook_generate_response_reports_error(outs) ==
    IF \E i \in 1..Len(outs) : outs[i].tag = "Error"
    THEN Object((<<"decision">> :> String(<<"block">>)))
    ELSE Object(EmptyMap)

FileEditedHook_generate_response(outs) == Object(EmptyMap)
SessionErrorHook_generate_response(outs) == Object(EmptyMap)

\* dynamic dispatch on Box<dyn Hook>
hook_type(h) ==
    CASE h = FileEditedHook -> FileEditedHook_hook_type
      [] h = SessionErrorHook -> SessionErrorHook_hook_type
      [] OTHER -> other_hook_type(h)

generate_response(h, outs) ==
    CASE h = FileEditedHook -> FileEditedHook_generate_response(outs)
      [] h = SessionErrorHook -> SessionErrorHook_generate_response(outs)
      [] OTHER -> other_generate_response(h, outs)

(***************************************************************************)
(* Inputs.                                                                 *)
(***************************************************************************)
Absent == [k |-> "absent"]
tool_key == <<"tool">>
name_key == <<"name">>
input_key == <<"input">>
bash == <<"bash">>
unknown_thing == <<"unknown", ".", "thing">>

\* the object holding the fields of f that are not Absent
ObjectOf(f) == Object([x \in {y \in DOMAIN f : f[y] # Absent} |-> f[x]])

\* values of hook_event_name, type, event, hook and tool in the documents read
HookEventNameValues ==
    {Absent, String(Stop), String(PreToolUse), String(FileEdited), String(<<"stop">>),
     String(session_idle), Number(42), Null}
TypeValues ==
    {Absent, String(tool_execute_before), String(session_idle), String(unknown_thing),
     String(<<"something">>), Null}
EventValues == {Absent, String(session_idle), String(session_error), String(unknown_thing)}
HookValues == {Absent, String(file_edited), String(Stop)}
ToolValues == {Absent, String(bash)}

JsonObjects ==
    {ObjectOf((hook_event_name_key :> a) @@ (type_key :> b) @@ (event_key :> c)
              @@ (hook_key :> d) @@ (tool_key :> e)) :
        a \in HookEventNameValues, b \in TypeValues, c \in EventValues,
        d \in HookValues, e \in ToolValues}

JsonInputs == JsonObjects \cup {Malformed, Null, String(session_idle), Array(<<String(Stop)>>)}

Outcomes ==
    {Success, Error(<<"failed">>), Interactive("Allow", None),
     Interactive("Deny", Some(<<"denied">>)), Interactive("Ask", None)}

(***************************************************************************)
(* One invocation: parse the event, resolve and construct the hook, run    *)
(* the handlers, generate the response.                                    *)
(***************************************************************************)
NoCall == [fn |-> "none"]

Init ==
    /\ pc = "start"
    /\ json \in JsonInputs
    /\ event = NotYet
    /\ hook_event_name = None
    /\ hook = NotYet
    /\ outcomes = <<>>
    /\ response = NotYet
    /\ call = NoCall

FromJson ==
    /\ pc = "start"
    /\ event' = from_json(json)
    /\ pc' = IF from_json(json).tag = "Ok" THEN "parsed" ELSE "failed"
    /\ UNCHANGED <<json, hook_event_name, hook, outcomes, response, call>>

HookFromEvent ==
    /\ pc = "parsed"
    /\ \E tool_ok \in BOOLEAN :
          /\ hook' = hook_from_event(event.v, tool_ok)
          /\ hook_event_name' =
                IF resolve_hook_event_name(event.v).tag = "Ok"
                THEN Some(resolve_hook_event_name(event.v).v)
                ELSE None
          /\ pc' = IF hook_from_event(event.v, tool_ok).tag = "Ok"
                   THEN "constructed" ELSE "failed"
    /\ UNCHANGED <<json, event, outcomes, response, call>>

RunHandler ==
    /\ pc = "constructed"
    /\ Len(outcomes) < MaxOutcomes
    /\ \E o \in Outcomes : outcomes' = Append(outcomes, o)
    /\ UNCHANGED <<pc, json, event, hook_event_name, hook, response, call>>

GenerateResponse ==
    /\ pc = "constructed"
    /\ response' = generate_response(hook.v, outcomes)
    /\ pc' = "responded"
    /\ UNCHANGED <<json, event, hook_event_name, hook, outcomes, call>>

Next == FromJson \/ HookFromEvent \/ RunHandler \/ GenerateResponse

Spec == Init /\ [][Next]_vars

(***************************************************************************)
(* Single calls of the pure functions, on inputs drawn from bounded sets.  *)
(***************************************************************************)
Pending == [tag |-> "Pending"]

Alphabet ==
    {Dot, "tool", "execute", "before", "after", "session", "idle", "created", "deleted",
     "completed", "compacted", "compacting", "file", "edited", "error", "Stop", "stop"}

\* every string of at most n symbols over A
StringsUpTo(A, n) == UNION {[1..len -> A] : len \in 0..n}

MappedEvents ==
    {tool_execute_before, tool_execute_after, session_idle, session_created,
     session_deleted, session_completed, session_compacted, session_compacting,
     file_edited, session_error}

HookNames ==
    {Stop, SubagentStop, Notification, PreToolUse, PostToolUse, PermissionRequest,
     UserPromptSubmit, SessionStart, SessionEnd, PreCompact, FileEdited, SessionError}

\* s with one symbol replaced, removed or inserted
Neighbours(s) ==
    {[s EXCEPT ![i] = c] : i \in 1..Len(s), c \in Alphabet}
        \cup {SubSeq(s, 1, i - 1) \o SubSeq(s, i + 1, Len(s)) : i \in 1..Len(s)}
        \cup {SubSeq(s, 1, i) \o <<c>> \o SubSeq(s, i + 1, Len(s)) :
                 i \in 0..Len(s), c \in Alphabet}

EventTypeInputs ==
    StringsUpTo(Alphabet, MaxStrLen) \cup MappedEvents \cup HookNames
        \cup UNION {Neighbours(s) : s \in MappedEvents}

HookNameInputs ==
    EventTypeInputs \cup UNION {Neighbours(s) : s \in HookNames}
        \cup {<<"subagentstop">>, <<"STOP">>, <<"pretooluse">>, <<"fileEdited">>,
              <<"Session", "Error">>, <<"Pre", "Tool", "Use">>}

DetectValues ==
    {Absent, Null, Number(1), String(unknown_thing), String(Stop), String(<<"session">>),
     String(<<"session", ".">>)} \cup {String(s) : s \in MappedEvents}

DetectInputs ==
    {ObjectOf((type_key :> a) @@ (event_key :> b) @@ (hook_key :> c)).m :
        a \in DetectValues, b \in DetectValues, c \in DetectValues}

PathAlphabet == {Dot, "tool", "name", "input", "bash"}

NestedEvents ==
    {Event((tool_key :> Object((name_key :> String(bash))
                               @@ (input_key :> Object((name_key :> String(bash))
                                                       @@ (tool_key :> Number(3))))))
           @@ (name_key :> String(bash))),
     Event((tool_key :> String(bash)) @@ (name_key :> Array(<<String(bash)>>))
           @@ (input_key :> Null)),
     Event((<<"tool", ".", "name">> :> String(bash))
           @@ (<<>> :> Object((<<>> :> String(bash)) @@ (name_key :> String(<<"input">>))))
           @@ (tool_key :> Object((<<>> :> String(<<"name">>))))),
     Event((tool_key :> Object((name_key :> Object((input_key :> String(bash))))
                               @@ (input_key :> Object((name_key :>
                                       Object((tool_key :> String(bash))))))))),
     Event(EmptyMap)}

InitPure ==
    /\ pc = "call"
    /\ json = Null
    /\ event = NotYet
    /\ hook_event_name = None
    /\ hook = NotYet
    /\ outcomes = <<>>
    /\ response = NotYet
    /\ \/ \E s \in EventTypeInputs :
             call = [fn |-> "map_opencode_event", event_type |-> s, ret |-> Pending]
       \/ \E d \in DetectInputs :
             call = [fn |-> "detect_opencode_event_type", data |-> d, ret |-> Pending]
       \/ \E n \in HookNameInputs, ok \in BOOLEAN :
             call = [fn |-> "hook_from_name", name |-> n, tool_ok |-> ok, ret |-> Pending]
       \/ \E ev \in NestedEvents, path \in StringsUpTo(PathAlphabet, MaxPathLen) :
             call = [fn |-> "get_nested_str", ev |-> ev, path |-> path, ret |-> Pending]

Return(value) ==
    /\ call' = [call EXCEPT !.ret = value]
    /\ pc' = "returned"
    /\ UNCHANGED <<json, event, hook_event_name, hook, outcomes, response>>

MapOpencodeEvent ==
    /\ pc = "call"
    /\ call.fn = "map_opencode_event"
    /\ Return(map_opencode_event(call.event_type))

DetectOpencodeEventType ==
    /\ pc = "call"
    /\ call.fn = "detect_opencode_event_type"
    /\ Return(detect_opencode_event_type(call.data))

HookFromName ==
    /\ pc = "call"
    /\ call.fn = "hook_from_name"
    /\ Return(hook_from_name(call.name, Event(EmptyMap), call.tool_ok))

GetNestedStr ==
    /\ pc = "call"
    /\ call.fn = "get_nested_str"
    /\ Return(get_nested_str(call.ev, call.path))

NextPure == MapOpencodeEvent \/ DetectOpencodeEventType \/ HookFromName \/ GetNestedStr

SpecPure == InitPure /\ [][NextPure]_vars

(***************************************************************************)
(* The documented behaviour, stated apart from the code.                   *)
(***************************************************************************)
\* the mapping table of the module documentation of hooks/opencode.rs
MappingTable ==
    {<<tool_execute_before, PreToolUse>>, <<tool_execute_after, PostToolUse>>,
     <<session_idle, Stop>>, <<session_created, SessionStart>>,
     <<session_deleted, SessionEnd>>, <<session_completed, Stop>>,
     <<session_compacted, PreCompact>>, <<session_compacting, PreCompact>>,
     <<file_edited, FileEdited>>, <<session_error, SessionError>>}

InTable(s) == \E row \in MappingTable : row[1] = s
TableName(s) == (CHOOSE row \in MappingTable : row[1] = s)[2]

\* field f of mapping m holds a recognized dotted vendor identity
Recognized(m, f) ==
    /\ f \in DOMAIN m
    /\ m[f].k = "string"
    /\ Dot \in {m[f].s[i] : i \in 1..Len(m[f].s)}
    /\ InTable(m[f].s)

AnyRecognized(m) == Recognized(m, type_key) \/ Recognized(m, event_key) \/ Recognized(m, hook_key)

\* the identity of the highest-priority field that holds a recognized one
FirstIdentity(m) ==
    IF Recognized(m, type_key) THEN m[type_key].s
    ELSE IF Recognized(m, event_key) THEN m[event_key].s
    ELSE m[hook_key].s

IsObject(j) == j.k = "object"
HasHookEventName(j) == IsObject(j) /\ hook_event_name_key \in DOMAIN j.m
Parsed == event # NotYet /\ event.tag = "Ok"
Resolved == hook # NotYet

\* C1: when the input object contains hook_event_name, the name that
\* hook_from_event resolves and passes to construction is that field's value,
\* and type, event and hook are not used to choose it.
C1_NameIsFieldValue ==
    (Resolved /\ HasHookEventName(json) /\ hook_event_name # None)
        => /\ json.m[hook_event_name_key].k = "string"
           /\ hook_event_name = Some(json.m[hook_event_name_key].s)

\* C2: from_json leaves a mapping that contains the key hook_event_name as it
\* is, whatever type, event and hook hold, and normalizing an event that has
\* hook_event_name once more gives the same data.
C2_NormalizeNoOp ==
    /\ (Parsed /\ HasHookEventName(json)) => event.v.data = json.m
    /\ (Parsed /\ hook_event_name_key \in DOMAIN event.v.data)
           => from_json(as_value(event.v)) = event

C2_Witness ==
    /\ Parsed
    /\ HasHookEventName(json)
    /\ json.m[hook_event_name_key].k # "string"
    /\ Recognized(json.m, type_key)

\* C3: for an input object without hook_event_name that has a recognized
\* dotted identity in type, event or hook, from_json adds exactly the key
\* hook_event_name, holding the table name of the detected identity, and
\* every original field keeps its value.
C3_InjectsMappedName ==
    (Parsed /\ IsObject(json) /\ ~HasHookEventName(json) /\ AnyRecognized(json.m))
        => /\ DOMAIN event.v.data = DOMAIN json.m \cup {hook_event_name_key}
           /\ Cardinality(DOMAIN event.v.data) = Cardinality(DOMAIN json.m) + 1
           /\ \A x \in DOMAIN json.m : event.v.data[x] = json.m[x]
           /\ event.v.data[hook_event_name_key] = String(TableName(FirstIdentity(json.m)))

C3_Witness ==
    /\ Parsed
    /\ ~HasHookEventName(json)
    /\ type_key \in DOMAIN json.m /\ json.m[type_key] = String(unknown_thing)
    /\ Recognized(json.m, event_key)
    /\ Recognized(json.m, hook_key)
    /\ tool_key \in DOMAIN json.m
    /\ event.v.data[hook_event_name_key] = String(SessionError)

\* C6: for an input object without hook_event_name whose type, event and hook
\* hold no recognized identity, from_json succeeds and injects nothing, and
\* hook_from_event on that event fails with the resolution error and
\* constructs no hook.
C6_UnrecognizedFailsAtDispatch ==
    (IsObject(json) /\ ~HasHookEventName(json) /\ ~AnyRecognized(json.m))
        => /\ event # NotYet => event = Ok(Event(json.m))
           /\ Resolved => /\ hook = Err("NoHookEventName", <<>>)
                          /\ hook_event_name = None
                          /\ pc = "failed"
                          /\ response = NotYet

C6_Witness ==
    /\ Resolved
    /\ ~HasHookEventName(json)
    /\ type_key \in DOMAIN json.m /\ json.m[type_key] = String(unknown_thing)
    /\ event_key \in DOMAIN json.m /\ json.m[event_key] = String(unknown_thing)
    /\ hook.tag = "Err"

\* C8: a hook constructed for an event that resolves to FileEdited or
\* SessionError reports that name as its hook_type, and its response is the
\* empty object for every sequence of outcomes.
C8_PassiveHooksAnswerEmpty ==
    (Resolved /\ hook.tag = "Ok" /\ hook_event_name \in {Some(FileEdited), Some(SessionError)})
        => /\ hook_type(hook.v) = hook_event_name.v
           /\ pc = "responded" => response = Object(EmptyMap)

C8_Witness ==
    /\ pc = "responded"
    /\ hook_event_name = Some(FileEdited)
    /\ ~HasHookEventName(json)
    /\ Recognized(json.m, hook_key)
    /\ \E i, j \in 1..Len(outcomes) :
          outcomes[i].tag = "Error" /\ outcomes[j].tag = "Interactive"
    /\ response = Object(EmptyMap)

\* C10: the vendor detection path never ends in a rejected name: what
\* detect_opencode_event_type returns always has a mapping, so hook_from_event
\* never fails with "Unrecognized OpenCode event"; every name in the range of
\* map_opencode_event is registered in hook_from_name; and an input without
\* a hook_event_name string never fails with "Unknown hook type".
C10_DetectionNeverRejected ==
    /\ Parsed =>
          (detect_opencode_event_type(event.v.data) # None
              => map_opencode_event(detect_opencode_event_type(event.v.data).v) # None)
    /\ Resolved => ~(hook.tag = "Err" /\ hook.kind = "UnrecognizedOpenCodeEvent")
    /\ (Resolved /\ IsObject(json) /\ get_str(Event(json.m), hook_event_name_key) = None)
          => ~(hook.tag = "Err" /\ hook.kind = "UnknownHookType")
    /\ \A s \in MappedEvents :
          hook_from_name(map_opencode_event(s).v, Event(EmptyMap), TRUE).tag = "Ok"

C10_Witness ==
    /\ Resolved
    /\ hook.tag = "Ok"
    /\ HasHookEventName(json)
    /\ json.m[hook_event_name_key].k # "string"
    /\ ~Recognized(json.m, type_key)
    /\ Recognized(json.m, hook_key)
    /\ hook_event_name = Some(FileEdited)

Returned(fn) == pc = "returned" /\ call.fn = fn

\* C4: detect_opencode_event_type returns the value of the first of type,
\* event, hook (in that order) that holds a recognized dotted identity; a
\* field that is absent, not a string or not recognized is skipped; None
\* when no field qualifies.
C4_FirstMatchWins ==
    Returned("detect_opencode_event_type")
        => call.ret = IF AnyRecognized(call.data)
                      THEN Some(FirstIdentity(call.data))
                      ELSE None

C4_Witness ==
    /\ Returned("detect_opencode_event_type")
    /\ type_key \in DOMAIN call.data /\ call.data[type_key] = String(unknown_thing)
    /\ event_key \in DOMAIN call.data /\ call.data[event_key] = String(session_idle)
    /\ hook_key \in DOMAIN call.data /\ call.data[hook_key] = String(file_edited)
    /\ call.ret = Some(session_idle)

\* C5: map_opencode_event is exactly the mapping table: each of the ten event
\* names maps to its internal name and every other string maps to None.
C5_ClosedTable ==
    Returned("map_opencode_event")
        => call.ret = IF InTable(call.event_type)
                      THEN Some(TableName(call.event_type))
                      ELSE None

C5_Witness ==
    /\ Returned("map_opencode_event")
    /\ call.event_type = session_compacting
    /\ call.ret = Some(PreCompact)

\* C7: hook_from_name fails with the unknown-hook-type error, naming the name,
\* exactly for the names outside the twelve hook type names.
C7_RejectsExactlyUnknownNames ==
    Returned("hook_from_name")
        => /\ call.name \notin HookNames => call.ret = Err("UnknownHookType", call.name)
           /\ call.name \in HookNames
                 => ~(call.ret.tag = "Err" /\ call.ret.kind = "UnknownHookType")

C7_Witness ==
    /\ Returned("hook_from_name")
    /\ call.name = session_idle
    /\ call.ret = Err("UnknownHookType", session_idle)

\* the value reached after the first n parts of the path, Absent when a part
\* is missing or the value before it is not an object
RECURSIVE ValueAt(_, _, _)
ValueAt(root, parts, n) ==
    IF n = 0
    THEN root
    ELSE LET prev == ValueAt(root, parts, n - 1)
         IN  IF prev.k = "object" /\ parts[n] \in DOMAIN prev.m
             THEN prev.m[parts[n]]
             ELSE Absent

\* C9: get_nested_str returns None, and no error, when a part of the path is
\* missing or the value reached before it is not an object; it returns a
\* string only when every part resolves through nested objects and the final
\* value is a string, and then it returns that string.
C9_NestedAbsenceIsNone ==
    Returned("get_nested_str")
        => LET parts == split(call.path, Dot)
               last == ValueAt(Object(call.ev.data), parts, Len(parts))
           IN  /\ call.ret.tag \in {"None", "Some"}
               /\ call.ret = IF last.k = "string" THEN Some(last.s) ELSE None

C9_Witness ==
    /\ Returned("get_nested_str")
    /\ call.path = <<"tool", ".", "name", ".", "input">>
    /\ tool_key \in DOMAIN call.ev.data
    /\ call.ev.data[tool_key].k = "string"
    /\ call.ret = None

====
